---------------------------- MODULE Spec2Model ----------------------------
(***************************************************************************)
(* Turtle graphics generators of src/src/turtlesoup.ts, driving the        *)
(* SimpleTurtle recorder of ./turtle.                                      *)
(*                                                                         *)
(* Numbers.  A TypeScript `number` that holds a length, a coordinate of    *)
(* the turtle or an angle in degrees is an integer counting 1/Scale of a   *)
(* unit and carrying at most Digits significant decimal digits; sines and  *)
(* cosines count 1/TrigScale.  Every operation rounds its result to the    *)
(* nearest representable value, as the double arithmetic of the program    *)
(* does at a finer grain: a division, a product with a fraction, a sine or *)
(* a square root to the nearest 1/Scale, a sum or a difference to Digits   *)
(* significant digits.  Loop counts (numSides, iterations) and waypoint    *)
(* coordinates are whole numbers and are held unscaled.                    *)
(***************************************************************************)
EXTENDS Integers, Sequences, FiniteSets

(* ------------------------------ bounds -------------------------------- *)
MaxSides == 7        \* numSides ranges over 0..MaxSides
MaxIterations == 7   \* iterations ranges over 0..MaxIterations
MaxPoints == 3       \* waypoint sequences have at most MaxPoints points
MaxCalls == 1        \* top-level generator calls made on the turtle

(* --------------------------- number format ---------------------------- *)
Scale == 1000
TrigScale == 10000
Digits == 7
Infinity == 2147483647    \* the quotient of a positive number by zero

Abs(a) == IF a < 0 THEN -a ELSE a

\* a / b for b > 0, rounded to the nearest integer
RoundDiv(a, b) ==
    IF a >= 0 THEN (a + b \div 2) \div b ELSE -((b \div 2 - a) \div b)

RECURSIVE Grain(_)
\* the spacing of the representable numbers around a >= 0
Grain(a) == IF a < 10 ^ Digits THEN 1 ELSE 10 * Grain(a \div 10)

\* v rounded to the nearest representable number
Fl(v) == LET g == Grain(Abs(v)) IN g * RoundDiv(v, g)

\* a + b and a - b
Plus(a, b) == Fl(a + b)
Minus(a, b) == Fl(a - b)

\* a / b of two numbers, a scaled and b a whole number
Quotient(a, b) == IF b = 0 THEN Infinity ELSE RoundDiv(a, b)

(* ----------------------------- Math.* --------------------------------- *)
\* radians (1/TrigScale) of an angle of at most 45 degrees (1/Scale)
Radians(m) == RoundDiv(m * 1309, 7500)

SinSeries(x) ==
    LET x2 == RoundDiv(x * x, TrigScale)
        t3 == TrigScale - RoundDiv(x2, 42)
        t2 == TrigScale - RoundDiv(x2 * t3, 20 * TrigScale)
        t1 == TrigScale - RoundDiv(x2 * t2, 6 * TrigScale)
    IN  RoundDiv(x * t1, TrigScale)

CosSeries(x) ==
    LET x2 == RoundDiv(x * x, TrigScale)
        c3 == TrigScale - RoundDiv(x2, 30)
        c2 == TrigScale - RoundDiv(x2 * c3, 12 * TrigScale)
    IN  TrigScale - RoundDiv(x2 * c2, 2 * TrigScale)

\* sine of an angle of 0..90 degrees
SinQuadrant(m) ==
    IF m <= 45 * Scale THEN SinSeries(Radians(m))
    ELSE CosSeries(Radians(90 * Scale - m))

\* Math.sin(deg * Math.PI / 180)
SinDeg(deg) ==
    LET m == deg % (360 * Scale)
    IN  IF m <= 90 * Scale THEN SinQuadrant(m)
        ELSE IF m <= 180 * Scale THEN SinQuadrant(180 * Scale - m)
        ELSE IF m <= 270 * Scale THEN -SinQuadrant(m - 180 * Scale)
        ELSE -SinQuadrant(360 * Scale - m)

\* Math.cos(deg * Math.PI / 180)
CosDeg(deg) == SinDeg(deg + 90 * Scale)


RECURSIVE ISqrtIn(_, _, _)
\* the largest r in lo..hi-1 with r * r <= n
ISqrtIn(n, lo, hi) ==
    IF hi - lo <= 1 THEN lo
    ELSE LET mid == (lo + hi) \div 2
         IN  IF mid * mid <= n THEN ISqrtIn(n, mid, hi) ELSE ISqrtIn(n, lo, mid)

ISqrt(n) == ISqrtIn(n, 0, 46341)

RECURSIVE SqrtDigits(_, _, _)
\* schoolbook square root: k more decimal digits of a root with remainder
SqrtDigits(root, rem, k) ==
    IF k = 0 THEN <<root, rem>>
    ELSE LET r100 == rem * 100
             d == CHOOSE c \in 0..9 :
                      /\ (20 * root + c) * c <= r100
                      /\ (20 * root + c + 1) * (c + 1) > r100
         IN  SqrtDigits(10 * root + d, r100 - (20 * root + d) * d, k - 1)

\* Math.sqrt of a whole number n, as a scaled number
Sqrt(n) ==
    LET r0 == ISqrt(n)
        rr == SqrtDigits(r0, n - r0 * r0, 3)
    IN  IF rr[2] > rr[1] THEN rr[1] + 1 ELSE rr[1]

RECURSIVE FirstNonNeg(_, _, _, _)
\* the least angle t in lo+1..hi with SinDeg(t)*ax - CosDeg(t)*ay >= 0
FirstNonNeg(ay, ax, lo, hi) ==
    IF hi - lo <= 1 THEN hi
    ELSE LET mid == (lo + hi) \div 2
         IN  IF SinDeg(mid) * ax - CosDeg(mid) * ay >= 0
             THEN FirstNonNeg(ay, ax, lo, mid) ELSE FirstNonNeg(ay, ax, mid, hi)

RECURSIVE LastNonPos(_, _, _, _)
\* the greatest angle t in lo..hi-1 with SinDeg(t)*ax - CosDeg(t)*ay <= 0
LastNonPos(ay, ax, lo, hi) ==
    IF hi - lo <= 1 THEN lo
    ELSE LET mid == (lo + hi) \div 2
         IN  IF SinDeg(mid) * ax - CosDeg(mid) * ay <= 0
             THEN LastNonPos(ay, ax, mid, hi) ELSE LastNonPos(ay, ax, lo, mid)

\* the angle of 0..90 degrees whose tangent is ay / ax, for ax, ay > 0
AtanQuadrant(ay, ax) ==
    (FirstNonNeg(ay, ax, 0, 90 * Scale) + LastNonPos(ay, ax, 0, 90 * Scale)) \div 2

\* Math.atan2(dy, dx) * 180 / Math.PI, in (-180, 180] degrees
Atan2Deg(dy, dx) ==
    IF dy = 0 THEN (IF dx >= 0 THEN 0 ELSE 180 * Scale)
    ELSE IF dx = 0 THEN (IF dy > 0 THEN 90 * Scale ELSE -90 * Scale)
    ELSE LET t == AtanQuadrant(Abs(dy), Abs(dx))
             u == IF dx > 0 THEN t ELSE 180 * Scale - t
         IN  IF dy > 0 THEN u ELSE -u

\* Number.prototype.toFixed(2): the value in hundredths
ToFixed2(v) == RoundDiv(v, Scale \div 100)

(* ------------------- SimpleTurtle (module ./turtle) ------------------- *)
Point(x, y) == [x |-> x, y |-> y]

\* new SimpleTurtle(): at the origin, heading 0, default pen, nothing drawn
NewTurtle ==
    [position |-> Point(0, 0), heading |-> 0, penColor |-> "black", path |-> <<>>]

\* forward(units): move along the heading and record the stroke
forward(t, units) ==
    LET end == Point(Plus(t.position.x, RoundDiv(units * CosDeg(t.heading), TrigScale)),
                     Plus(t.position.y, RoundDiv(units * SinDeg(t.heading), TrigScale)))
    IN  [t EXCEPT !.position = end,
                  !.path = Append(@, [start |-> t.position, end |-> end,
                                      color |-> t.penColor])]

\* turn(degrees): add to the heading
turn(t, degrees) == [t EXCEPT !.heading = Plus(@, degrees)]

\* variant: the recorded segments share the pen colour
color_Retroactive(t, c) ==
    [t EXCEPT !.penColor = c,
              !.path = [k \in DOMAIN t.path |-> [t.path[k] EXCEPT !.color = c]]]

\* color(c): set the pen colour
color(t, c) == [t EXCEPT !.penColor = c]

getHeading(t) == t.heading

(* ------------------------------ inputs -------------------------------- *)
SideLengths == { Quotient(50 * Scale, 3), 25 * Scale }
Radii == { 0, 10 * Scale }
Waypoints == { Point(0, 0), Point(3, 4), Point(-2, 1) }
PointSequences == UNION { [1..n -> Waypoints] : n \in 0..MaxPoints }

(* -------------------------- turtlesoup.ts ----------------------------- *)
\* pointsToExplore of main (lines 166-170)
pointsToExplore == << Point(10, 10), Point(100, 50), Point(200, 150) >>

\* every point handed to plotOptimalPath
InputPoints == Waypoints \cup { pointsToExplore[k] : k \in DOMAIN pointsToExplore }

\* calculateChordLength(radius, angleInDegrees)
calculateChordLength(radius, angleInDegrees) ==
    LET halfAngle == RoundDiv(angleInDegrees, 2)
    IN  RoundDiv(2 * radius * SinDeg(halfAngle), TrigScale)

\* computeDistance(point1, point2), of points with whole coordinates
computeDistance(point1, point2) ==
    LET xDiff == point1.x - point2.x
        yDiff == point1.y - point2.y
    IN  Sqrt(xDiff * xDiff + yDiff * yDiff)

\* variant: the arguments of atan2 swapped
travelAngle_Swapped(currentPoint, nextPoint) ==
    Atan2Deg(nextPoint.x - currentPoint.x, nextPoint.y - currentPoint.y)

\* Math.atan2(deltaY, deltaX) * 180 / Math.PI of every leg between input
\* points, evaluated once
Bearing ==
    [currentPoint \in InputPoints, nextPoint \in InputPoints |->
        Atan2Deg(nextPoint.y - currentPoint.y, nextPoint.x - currentPoint.x)]

\* travelAngle of the leg from currentPoint to nextPoint (lines 81-84)
travelAngle(currentPoint, nextPoint) == Bearing[currentPoint, nextPoint]

\* variant: the turn normalised into (-180, 180]
turnAngle_Normalized(angle, heading) ==
    LET d == Minus(angle, heading) % (360 * Scale)
    IN  IF d > 180 * Scale THEN d - 360 * Scale ELSE d

\* turnAngle (line 87)
turnAngle(angle, heading) == Minus(angle, heading)

\* variant: the interior angle of the polygon instead of the exterior one
anglePerTurn_Interior(numSides) == Quotient((numSides - 2) * 180 * Scale, numSides)

\* anglePerTurn (line 12) and baseAngle (line 43)
anglePerTurn(numSides) == Quotient(360 * Scale, numSides)

\* variant: growth by 1.5 instead of 1.05
growRadius_Typo(currentRadius) == RoundDiv(currentRadius * 150, 100)

\* currentRadius *= 1.05 (line 52)
growRadius(currentRadius) == RoundDiv(currentRadius * 105, 100)

colorPalette ==
    << "teal", "coral", "indigo", "gold", "crimson", "navy", "olive", "maroon" >>

\* variant: the index not doubled
paletteColor_NotDoubled(complexity) == colorPalette[(complexity % Len(colorPalette)) + 1]

\* colorPalette[(complexity * 2) % colorPalette.length] (line 110)
paletteColor(complexity) == colorPalette[((complexity * 2) % Len(colorPalette)) + 1]

\* 50 / complexity (line 113)
artworkSide(complexity) == Quotient(50 * Scale, complexity)

\* 360 / (i * complexity) (line 114)
artworkTurn(i, complexity) == Quotient(360 * Scale, i * complexity)

\* the two strings pushed per leg (lines 91-92)
Instruction(kind, v) == [kind |-> kind, hundredths |-> ToFixed2(v)]

(* ------------------------------- state -------------------------------- *)
VARIABLES
    turtle,   \* the SimpleTurtle: position, heading, penColor, path
    stack,    \* activation records of the running functions, innermost last
    calls,    \* turtle primitives invoked since the top-level call began
    entry,    \* the top-level call: function, arguments, turtle on entry
    result,   \* how the top-level call ended and what it returned
    ncalls    \* top-level calls made so far

vars == << turtle, stack, calls, entry, result, ncalls >>

Top == stack[Len(stack)]
Running(fn) == stack # <<>> /\ Top.fn = fn
SetTop(f) == [stack EXCEPT ![Len(stack)] = f]
Pop == SubSeq(stack, 1, Len(stack) - 1)

Call(op, arg, c) == [op |-> op, arg |-> arg, color |-> c]
Entry(fn, length, count, points) ==
    [fn |-> fn, length |-> length, count |-> count, points |-> points,
     turtle |-> turtle]
Outcome(status, value) == [status |-> status, value |-> value]

Idle == stack = <<>> /\ ncalls < MaxCalls /\ entry.fn # "main"

\* a void function returns to its caller, or ends the top-level call
ReturnVoid ==
    /\ stack' = Pop
    /\ result' = IF Len(stack) = 1 THEN Outcome("returned", <<>>) ELSE result

Init ==
    /\ turtle = NewTurtle
    /\ stack = <<>>
    /\ calls = <<>>
    /\ entry = [fn |-> "none", length |-> 0, count |-> 0, points |-> <<>>,
                turtle |-> NewTurtle]
    /\ result = Outcome("none", <<>>)
    /\ ncalls = 0

\* a client calls fn on the idle turtle
Begin(fn, length, count, points, frame) ==
    /\ stack' = << frame >>
    /\ calls' = <<>>
    /\ entry' = Entry(fn, length, count, points)
    /\ result' = Outcome("running", <<>>)
    /\ ncalls' = ncalls + 1
    /\ UNCHANGED turtle

(* ---------------------- drawPolygon (lines 11-17) --------------------- *)
PolygonFrame(sideLength, numSides) ==
    [fn |-> "drawPolygon", sideLength |-> sideLength, numSides |-> numSides,
     anglePerTurn |-> anglePerTurn(numSides), i |-> 0, pc |-> "forward"]

CallDrawPolygon ==
    /\ Idle
    /\ \E sideLength \in SideLengths, numSides \in 0..MaxSides :
           Begin("drawPolygon", sideLength, numSides, <<>>,
                 PolygonFrame(sideLength, numSides))

PolygonForward ==
    /\ Running("drawPolygon")
    /\ Top.pc = "forward"
    /\ Top.i < Top.numSides
    /\ turtle' = forward(turtle, Top.sideLength)
    /\ calls' = Append(calls, Call("forward", Top.sideLength, ""))
    /\ stack' = SetTop([Top EXCEPT !.pc = "turn"])
    /\ UNCHANGED << entry, result, ncalls >>

PolygonTurn ==
    /\ Running("drawPolygon")
    /\ Top.pc = "turn"
    /\ turtle' = turn(turtle, Top.anglePerTurn)
    /\ calls' = Append(calls, Call("turn", Top.anglePerTurn, ""))
    /\ stack' = SetTop([Top EXCEPT !.pc = "forward", !.i = @ + 1])
    /\ UNCHANGED << entry, result, ncalls >>

PolygonReturn ==
    /\ Running("drawPolygon")
    /\ Top.pc = "forward"
    /\ ~(Top.i < Top.numSides)
    /\ ReturnVoid
    /\ UNCHANGED << turtle, calls, entry, ncalls >>

(* ------------------ drawSpiralingCircle (lines 38-54) ----------------- *)
SpiralFrame(radius, iterations) ==
    [fn |-> "drawSpiralingCircle", radius |-> radius, iterations |-> iterations,
     baseAngle |-> anglePerTurn(iterations), currentRadius |-> radius,
     i |-> 0, pc |-> "forward"]

CallDrawSpiralingCircle ==
    /\ Idle
    /\ \E radius \in Radii, iterations \in 0..MaxIterations :
           Begin("drawSpiralingCircle", radius, iterations, <<>>,
                 SpiralFrame(radius, iterations))

SpiralForward ==
    /\ Running("drawSpiralingCircle")
    /\ Top.pc = "forward"
    /\ Top.i < Top.iterations
    /\ LET chordLength == calculateChordLength(Top.currentRadius, Top.baseAngle)
       IN  /\ turtle' = forward(turtle, chordLength)
           /\ calls' = Append(calls, Call("forward", chordLength, ""))
    /\ stack' = SetTop([Top EXCEPT !.pc = "turn"])
    /\ UNCHANGED << entry, result, ncalls >>

SpiralTurn ==
    /\ Running("drawSpiralingCircle")
    /\ Top.pc = "turn"
    /\ turtle' = turn(turtle, Top.baseAngle)
    /\ calls' = Append(calls, Call("turn", Top.baseAngle, ""))
    /\ stack' = SetTop([Top EXCEPT !.pc = "forward", !.i = @ + 1,
                                   !.currentRadius = growRadius(@)])
    /\ UNCHANGED << entry, result, ncalls >>

SpiralReturn ==
    /\ Running("drawSpiralingCircle")
    /\ Top.pc = "forward"
    /\ ~(Top.i < Top.iterations)
    /\ ReturnVoid
    /\ UNCHANGED << turtle, calls, entry, ncalls >>

(* -------------------- plotOptimalPath (lines 74-96) ------------------- *)
PlotFrame(pointSequence) ==
    [fn |-> "plotOptimalPath", pointSequence |-> pointSequence,
     navigationInstructions |-> <<>>, i |-> 0, pc |-> "turn",
     turnAngle |-> 0, travelDistance |-> 0,
     onEntry |-> turtle.position]   \* history: where the turtle was on entry

\* variants: the loop runs one leg too far, or stops one leg short
PlotContinues_Inclusive(f) == f.i <= Len(f.pointSequence) - 1
PlotContinues_SkipLast(f) == f.i < Len(f.pointSequence) - 2

\* the loop condition of line 77
PlotContinues(f) == f.i < Len(f.pointSequence) - 1

CallPlotOptimalPath ==
    /\ Idle
    /\ \E pointSequence \in PointSequences :
           Begin("plotOptimalPath", 0, 0, pointSequence, PlotFrame(pointSequence))

\* lines 78-88: measure the leg and turn towards it
PlotTurn ==
    /\ Running("plotOptimalPath")
    /\ Top.pc = "turn"
    /\ PlotContinues(Top)
    /\ IF Top.i + 2 > Len(Top.pointSequence)
       THEN \* nextPoint is undefined: reading nextPoint.x throws a TypeError
            /\ stack' = <<>>
            /\ result' = Outcome("error", <<>>)
            /\ UNCHANGED << turtle, calls >>
       ELSE LET currentPoint == Top.pointSequence[Top.i + 1]
                nextPoint == Top.pointSequence[Top.i + 2]
                angle == travelAngle(currentPoint, nextPoint)
                travelDistance == computeDistance(currentPoint, nextPoint)
                ta == turnAngle(angle, getHeading(turtle))
            IN  /\ turtle' = turn(turtle, ta)
                /\ calls' = Append(calls, Call("turn", ta, ""))
                /\ stack' = SetTop([Top EXCEPT !.pc = "forward", !.turnAngle = ta,
                                               !.travelDistance = travelDistance])
                /\ UNCHANGED result
    /\ UNCHANGED << entry, ncalls >>

\* lines 89-92: walk the leg and log the two instructions
PlotForward ==
    /\ Running("plotOptimalPath")
    /\ Top.pc = "forward"
    /\ turtle' = forward(turtle, Top.travelDistance)
    /\ calls' = Append(calls, Call("forward", Top.travelDistance, ""))
    /\ stack' = SetTop([Top EXCEPT
                           !.pc = "turn", !.i = @ + 1,
                           !.navigationInstructions =
                               @ \o << Instruction("Turn", Top.turnAngle),
                                       Instruction("Move", Top.travelDistance) >>])
    /\ UNCHANGED << entry, result, ncalls >>

\* line 95: hand the instructions to the caller
PlotReturn ==
    /\ Running("plotOptimalPath")
    /\ Top.pc = "turn"
    /\ ~PlotContinues(Top)
    /\ IF Len(stack) = 1
       THEN /\ stack' = <<>>
            /\ result' = Outcome("returned", Top.navigationInstructions)
       ELSE /\ stack' = [Pop EXCEPT ![Len(stack) - 1].navigationPath =
                                        Top.navigationInstructions]
            /\ UNCHANGED result
    /\ UNCHANGED << turtle, calls, entry, ncalls >>

(* ---------------- createGeometricArtwork (lines 102-117) -------------- *)
ArtworkFrame ==
    [fn |-> "createGeometricArtwork", complexity |-> 1, i |-> 3, pc |-> "color"]

CallCreateGeometricArtwork ==
    /\ Idle
    /\ Begin("createGeometricArtwork", 0, 0, <<>>, ArtworkFrame)

\* line 110: one pen colour per value of complexity
ArtworkColor ==
    /\ Running("createGeometricArtwork")
    /\ Top.pc = "color"
    /\ Top.complexity <= 5
    /\ turtle' = color(turtle, paletteColor(Top.complexity))
    /\ calls' = Append(calls, Call("color", 0, paletteColor(Top.complexity)))
    /\ stack' = SetTop([Top EXCEPT !.pc = "polygon", !.i = 3])
    /\ UNCHANGED << entry, result, ncalls >>

\* line 113: call drawPolygon
ArtworkPolygon ==
    /\ Running("createGeometricArtwork")
    /\ Top.pc = "polygon"
    /\ stack' = Append(SetTop([Top EXCEPT !.pc = "turn"]),
                       PolygonFrame(artworkSide(Top.complexity), Top.i))
    /\ UNCHANGED << turtle, calls, entry, result, ncalls >>

\* line 114, then the loop headers of lines 112 and 109
ArtworkTurn ==
    /\ Running("createGeometricArtwork")
    /\ Top.pc = "turn"
    /\ turtle' = turn(turtle, artworkTurn(Top.i, Top.complexity))
    /\ calls' = Append(calls, Call("turn", artworkTurn(Top.i, Top.complexity), ""))
    /\ stack' = SetTop(IF Top.i + 1 <= 8
                       THEN [Top EXCEPT !.pc = "polygon", !.i = @ + 1]
                       ELSE [Top EXCEPT !.pc = "color", !.i = @ + 1,
                                        !.complexity = @ + 1])
    /\ UNCHANGED << entry, result, ncalls >>

ArtworkReturn ==
    /\ Running("createGeometricArtwork")
    /\ Top.pc = "color"
    /\ ~(Top.complexity <= 5)
    /\ ReturnVoid
    /\ UNCHANGED << turtle, calls, entry, ncalls >>

(* --------------------------- main (lines 160-177) --------------------- *)
MainFrame == [fn |-> "main", pc |-> "artwork", navigationPath |-> <<>>]

\* line 161: main draws on a turtle of its own, newly constructed
CallMain ==
    /\ Idle
    /\ ncalls = 0
    /\ turtle = NewTurtle
    /\ Begin("main", 0, 0, pointsToExplore, MainFrame)

\* line 164
MainArtwork ==
    /\ Running("main")
    /\ Top.pc = "artwork"
    /\ stack' = Append(SetTop([Top EXCEPT !.pc = "plot"]), ArtworkFrame)
    /\ UNCHANGED << turtle, calls, entry, result, ncalls >>

\* line 172
MainPlot ==
    /\ Running("main")
    /\ Top.pc = "plot"
    /\ stack' = Append(SetTop([Top EXCEPT !.pc = "export"]),
                       PlotFrame(pointsToExplore))
    /\ UNCHANGED << turtle, calls, entry, result, ncalls >>

\* lines 173-176 read the path and the instructions; the turtle is untouched
MainExport ==
    /\ Running("main")
    /\ Top.pc = "export"
    /\ stack' = Pop
    /\ result' = Outcome("returned", Top.navigationPath)
    /\ UNCHANGED << turtle, calls, entry, ncalls >>

(* --------------------------- specification ---------------------------- *)
Next ==
    \/ CallDrawPolygon
    \/ PolygonForward
    \/ PolygonTurn
    \/ PolygonReturn
    \/ CallDrawSpiralingCircle
    \/ SpiralForward
    \/ SpiralTurn
    \/ SpiralReturn
    \/ CallPlotOptimalPath
    \/ PlotTurn
    \/ PlotForward
    \/ PlotReturn
    \/ CallCreateGeometricArtwork
    \/ ArtworkColor
    \/ ArtworkPolygon
    \/ ArtworkTurn
    \/ ArtworkReturn
    \/ CallMain
    \/ MainArtwork
    \/ MainPlot
    \/ MainExport

Spec == Init /\ [][Next]_vars

(* ------------------------ vocabulary of the claims -------------------- *)
\* the top-level call fn has returned
Finished(fn) == stack = <<>> /\ result.status = "returned" /\ entry.fn = fn

\* the segments recorded since the top-level call began
NewSegments ==
    SubSeq(turtle.path, Len(entry.turtle.path) + 1, Len(turtle.path))

\* the length of a recorded segment, rounded to the nearest 1/Scale
SegmentLength(seg) ==
    LET n == (seg.end.x - seg.start.x) * (seg.end.x - seg.start.x)
             + (seg.end.y - seg.start.y) * (seg.end.y - seg.start.y)
        r == ISqrt(n)
    IN  IF n - r * r > r THEN r + 1 ELSE r

\* rounding error allowed on a coordinate after a move of d
Slack(d) == d \div 2500 + 2

HeadingChange == turtle.heading - entry.turtle.heading

FullTurn == 360 * Scale

\* twice the rounding error of a sum or difference of magnitude v
SumRounding(v) == IF Grain(Abs(v)) = 1 THEN 0 ELSE Grain(Abs(v))

\* n turns of the rounded quotient 360/n advance the heading by 360 up to the
\* rounding of the quotient and of the n sums, and by exactly 360 when
\* nothing is rounded
AdvancedByFullTurn(n) ==
    /\ 2 * Abs(HeadingChange - FullTurn) <= n * (1 + SumRounding(turtle.heading))
    /\ (SumRounding(turtle.heading) = 0 => HeadingChange = n * RoundDiv(FullTurn, n))
    /\ (FullTurn % n = 0 /\ SumRounding(turtle.heading) = 0 =>
            HeadingChange = FullTurn)

(* ------------------------------- C1 ----------------------------------- *)
\* C1 as stated: drawPolygon(t, s, n) with n >= 3 appends exactly n segments,
\* each of length exactly s, and leaves the heading unchanged modulo 360.
C1_Exact ==
    (Finished("drawPolygon") /\ entry.count >= 3) =>
        /\ Len(NewSegments) = entry.count
        /\ \A k \in 1..Len(NewSegments) :
               SegmentLength(NewSegments[k]) = entry.length
        /\ HeadingChange % FullTurn = 0

\* C1 as amended: drawPolygon(t, s, n) with n >= 3 appends exactly n segments,
\* each drawn by forward(s) and of length s up to rounding error, and advances
\* the heading by n turns of the rounded quotient 360/n: by exactly 360 when
\* 360/n and the heading sums are representable, and by 360 up to rounding
\* error otherwise.
C1_PolygonWithinRounding ==
    (Finished("drawPolygon") /\ entry.count >= 3) =>
        /\ Len(NewSegments) = entry.count
        /\ \A k \in 1..Len(NewSegments) :
               /\ calls[2 * k - 1] = Call("forward", entry.length, "")
               /\ Abs(SegmentLength(NewSegments[k]) - entry.length)
                      <= Slack(entry.length)
        /\ AdvancedByFullTurn(entry.count)

\* a heptagon has been drawn: 360/7 is not representable
C1_Witness == Finished("drawPolygon") /\ entry.count = 7

(* ------------------------------- C2 ----------------------------------- *)
\* C2: drawPolygon(t, s, 0) and drawSpiralingCircle(t, r, 0) end in a
\* reported error; they do not return normally.
C2_ZeroCountRejected ==
    (/\ entry.fn \in {"drawPolygon", "drawSpiralingCircle"}
     /\ entry.count = 0
     /\ stack = <<>>) => result.status = "error"

(* ------------------------------- C3 ----------------------------------- *)
\* C3: with fewer than 2 waypoints plotOptimalPath calls no turtle primitive,
\* leaves position, heading, pen colour and path as they were on entry, and
\* returns an empty instruction list.
C3_ShortSequenceNoEffect ==
    (entry.fn = "plotOptimalPath" /\ Len(entry.points) < 2) =>
        /\ calls = <<>>
        /\ turtle = entry.turtle
        /\ (stack = <<>> => result = Outcome("returned", <<>>))

C3_Witness ==
    /\ Finished("plotOptimalPath")
    /\ Len(entry.points) = 1
    /\ result.value = <<>>

(* ------------------------------- C4 ----------------------------------- *)
\* C4: for L >= 1 waypoints plotOptimalPath returns 2 * (L - 1) instructions,
\* a "Turn" then a "Move" per consecutive pair in waypoint order; the turtle
\* receives one turn then one forward per pair, and the path grows by L - 1.
C4_TwoInstructionsPerLeg ==
    (stack = <<>> /\ entry.fn = "plotOptimalPath" /\ Len(entry.points) >= 1) =>
        LET L == Len(entry.points) IN
        /\ result.status = "returned"
        /\ Len(result.value) = 2 * (L - 1)
        /\ Len(calls) = 2 * (L - 1)
        /\ Len(NewSegments) = L - 1
        /\ \A k \in 1..(L - 1) :
               LET d == computeDistance(entry.points[k], entry.points[k + 1]) IN
               /\ calls[2 * k - 1].op = "turn"
               /\ calls[2 * k] = Call("forward", d, "")
               /\ result.value[2 * k - 1] =
                      [kind |-> "Turn", hundredths |-> ToFixed2(calls[2 * k - 1].arg)]
               /\ result.value[2 * k] = [kind |-> "Move", hundredths |-> ToFixed2(d)]

C4_Witness ==
    /\ Finished("plotOptimalPath")
    /\ Len(entry.points) = 3
    /\ Len(result.value) = 4
    /\ entry.points[1] # entry.points[2]

(* ------------------------------- C6 ----------------------------------- *)
\* the step invoked forward on the turtle
ForwardCalled ==
    /\ Len(calls') = Len(calls) + 1
    /\ calls'[Len(calls')].op = "forward"

\* C6: the path is append-only: every step leaves the recorded segments an
\* unchanged prefix, a forward call appends exactly one segment from the old
\* to the new position tagged with the pen colour current at the call, and
\* no other step (a colour change included) touches the path.
C6_PathAppendOnly ==
    [][ /\ Len(turtle'.path) >= Len(turtle.path)
        /\ SubSeq(turtle'.path, 1, Len(turtle.path)) = turtle.path
        /\ IF ForwardCalled
           THEN turtle'.path = Append(turtle.path,
                                      [start |-> turtle.position,
                                       end |-> turtle'.position,
                                       color |-> turtle.penColor])
           ELSE turtle'.path = turtle.path ]_vars

\* the pen colour has changed after segments were recorded in another colour
C6_Witness ==
    /\ Len(turtle.path) >= 34
    /\ turtle.path[1].color = "indigo"
    /\ turtle.path[34].color = "crimson"
    /\ turtle.penColor = "olive"

(* ------------------------------- C7 ----------------------------------- *)
\* plotOptimalPath is about to measure and turn towards its next leg
AtPlotTurn == Running("plotOptimalPath") /\ Top.pc = "turn" /\ PlotContinues(Top)

\* the bearing of the leg plotOptimalPath is at
LegBearing ==
    LET a == Top.pointSequence[Top.i + 1]
        b == Top.pointSequence[Top.i + 2]
    IN  Bearing[a, b]

RECURSIVE RadiusAt(_, _)
\* r * 1.05^k
RadiusAt(r, k) == IF k = 0 THEN r ELSE RoundDiv(RadiusAt(r, k - 1) * 105, 100)

\* the k-th step (k = 0..n-1) moved forward by chordLength(r * 1.05^k, 360/n)
\* and then turned by 360/n, and the forward distances never decrease
SpiralSteps ==
    LET n == entry.count
        baseAngle == RoundDiv(FullTurn, n)
    IN  /\ Len(NewSegments) = n
        /\ Len(calls) = 2 * n
        /\ \A k \in 0..(n - 1) :
               /\ calls[2 * k + 1] =
                      Call("forward",
                           calculateChordLength(RadiusAt(entry.length, k), baseAngle),
                           "")
               /\ calls[2 * k + 2] = Call("turn", baseAngle, "")
        /\ \A k \in 1..(n - 1) :
               /\ calls[2 * k - 1].arg <= calls[2 * k + 1].arg
               /\ SegmentLength(NewSegments[k]) <= SegmentLength(NewSegments[k + 1])

\* C8 as stated: for n >= 1 and r >= 0 the spiral appends n segments, step k
\* moving by chordLength(r * 1.05^k, 360/n) then turning by 360/n, lengths
\* non-decreasing, and the heading advances by exactly 360.
C8_Exact ==
    (Finished("drawSpiralingCircle") /\ entry.count >= 1) =>
        /\ SpiralSteps
        /\ HeadingChange = FullTurn

\* C8 as amended: the same, except that the heading advances by n turns of
\* the rounded quotient 360/n: by exactly 360 when 360/n and the heading sums
\* are representable, and by 360 up to rounding error otherwise.
C8_SpiralWithinRounding ==
    (Finished("drawSpiralingCircle") /\ entry.count >= 1) =>
        /\ SpiralSteps
        /\ AdvancedByFullTurn(entry.count)

\* a spiral of 7 steps and positive radius has been drawn
C8_Witness ==
    /\ Finished("drawSpiralingCircle")
    /\ entry.count = 7
    /\ entry.length > 0
    /\ calls[1].arg < calls[13].arg

(* ------------------------------- C9 ----------------------------------- *)
RECURSIVE Repeat(_, _)
Repeat(seq, n) == IF n = 0 THEN <<>> ELSE seq \o Repeat(seq, n - 1)

\* the colour the claim names for each value of complexity
ClaimedColors == << "indigo", "crimson", "olive", "teal", "indigo" >>

RECURSIVE ClaimedPolygons(_, _)
\* polygons of i..8 sides and side 50/c, each followed by a turn of 360/(i*c)
ClaimedPolygons(c, i) ==
    IF i > 8 THEN <<>>
    ELSE Repeat(<< Call("forward", RoundDiv(50 * Scale, c), ""),
                   Call("turn", RoundDiv(FullTurn, i), "") >>, i)
         \o << Call("turn", RoundDiv(FullTurn, i * c), "") >>
         \o ClaimedPolygons(c, i + 1)

RECURSIVE ClaimedArtwork(_)
ClaimedArtwork(c) ==
    IF c > 5 THEN <<>>
    ELSE << Call("color", 0, ClaimedColors[c]) >>
         \o ClaimedPolygons(c, 3) \o ClaimedArtwork(c + 1)

\* createGeometricArtwork has just returned, to a client or to main
ArtworkDone ==
    \/ Finished("createGeometricArtwork")
    \/ (Running("main") /\ Len(stack) = 1 /\ Top.pc = "plot")

\* C9: for complexity c = 1..5 in order the artwork sets the pen colour once,
\* to indigo, crimson, olive, teal, indigo, then draws polygons of 3..8 sides
\* and side 50/c, each followed by a turn of 360/(sides*c); it records 165
\* segments, the 33 of outer step c in that step's colour.
C9_ArtworkCallsAndColors ==
    ArtworkDone =>
        /\ calls = ClaimedArtwork(1)
        /\ Len(NewSegments) = 165
        /\ (entry.turtle.path = <<>> => Len(turtle.path) = 165)
        /\ \A c \in 1..5 : \A j \in (33 * (c - 1) + 1)..(33 * c) :
               /\ NewSegments[j].color = ClaimedColors[c]
               /\ NewSegments[j].color = colorPalette[((2 * c) % 8) + 1]

C9_Witness ==
    /\ Finished("createGeometricArtwork")
    /\ Len(turtle.path) = 165
    /\ turtle.path[165].color = "indigo"
    /\ turtle.path[132].color = "teal"
    /\ turtle.path[1].color = "indigo"

(* ------------------------------- C10 ---------------------------------- *)
\* plotOptimalPath is between legs, Top.i of them walked
BetweenLegs == Running("plotOptimalPath") /\ Top.pc = "turn"

\* the segment recorded for leg k of the running plotOptimalPath
LegSegment(k) == turtle.path[Len(turtle.path) - Top.i + k]

\* waypoint p moved by (position on entry - first waypoint)
Translated(p) ==
    LET o == Top.onEntry
        first == Top.pointSequence[1]
    IN  Point(o.x + Scale * (p.x - first.x), o.y + Scale * (p.y - first.y))

Near(p, q, slack) == Abs(p.x - q.x) <= slack /\ Abs(p.y - q.y) <= slack

RECURSIVE LegSlack(_)
\* rounding error accumulated over the first k legs
LegSlack(k) ==
    IF k = 0 THEN 0
    ELSE LegSlack(k - 1)
         + Slack(computeDistance(Top.pointSequence[k], Top.pointSequence[k + 1]))

\* C10 as stated: the k-th appended segment runs exactly from waypoint k to
\* waypoint k+1, both translated by (position on entry - first waypoint), and
\* so from points[k] to points[k+1] when the turtle starts at points[0].
C10_Exact ==
    BetweenLegs =>
        /\ \A k \in 1..Top.i :
               /\ LegSegment(k).start = Translated(Top.pointSequence[k])
               /\ LegSegment(k).end = Translated(Top.pointSequence[k + 1])
        /\ (Top.i >= 1 => turtle.position = Translated(Top.pointSequence[Top.i + 1]))

\* C10 as amended: plotOptimalPath moves the turtle only by its forward calls,
\* starting wherever the turtle is; the k-th appended segment runs from
\* waypoint k to waypoint k+1, both translated by (position on entry - first
\* waypoint), up to the rounding error accumulated over the legs walked.
C10_LegsTranslatedWithinRounding ==
    BetweenLegs =>
        /\ (Top.i = 0 => turtle.position = Top.onEntry)
        /\ \A k \in 1..Top.i :
               /\ LegSegment(k).start =
                      (IF k = 1 THEN Top.onEntry ELSE LegSegment(k - 1).end)
               /\ Near(LegSegment(k).start, Translated(Top.pointSequence[k]),
                       LegSlack(k - 1))
               /\ Near(LegSegment(k).end, Translated(Top.pointSequence[k + 1]),
                       LegSlack(k))
        /\ (Top.i >= 1 => turtle.position = LegSegment(Top.i).end)

\* main has walked both legs of pointsToExplore, starting away from (10, 10)
C10_Witness ==
    /\ BetweenLegs
    /\ entry.fn = "main"
    /\ Top.i = 2
    /\ Top.onEntry # Point(10 * Scale, 10 * Scale)
    /\ Abs(turtle.position.x - Top.onEntry.x - 190 * Scale) <= 100

=============================================================================
